---- MODULE Spec2Model ----
(***************************************************************************)
(* Real-time ranking update pipeline of DEFI-DNA.                          *)
(*                                                                         *)
(*   - the websocket broadcaster (backend websocket module: broadcastToAll *)
(*     and the five typed broadcast functions, plus the variants of the    *)
(*     FIXES/websocket-leaderboard-FIXED.js file);                         *)
(*   - the indexer's processSwap -> updateDNAScore -> checkLeaderboard-    *)
(*     Change pipeline of FIXES/indexer-processSwap-FIXED.js, one process  *)
(*     per in-flight call, one action per await.                           *)
(***************************************************************************)
EXTENDS Integers, Sequences, FiniteSets, TLC

(***************************************************************************)
(* Bounds of the model.                                                    *)
(***************************************************************************)
MaxConns == 3        \* connection ids 1..MaxConns
MaxBroadcasts == 2   \* direct broadcast calls in SpecBcast
MaxEvents == 2       \* in-flight processSwap calls in SpecCoord
MaxSwaps == 3        \* total_swaps of the row in SpecScore
MaxVolume == 3       \* total_volume_usd of the row in SpecScore
MaxDay == 2          \* days of the clock in SpecScore and SpecLive
MaxPage == 3         \* pages the user pages through in SpecPage
MaxHandled == 3      \* callbacks useWebSocket invokes in SpecLive

Conns == 1..MaxConns
Events == 1..MaxEvents
Addrs == {"0xa", "0xb"}
Pools == {"p1"}

\* ws readyState values; the broadcast loops compare against OPEN (1)
ReadyState == [CONNECTING |-> 0, OPEN |-> 1, CLOSING |-> 2, CLOSED |-> 3]
CONNECTING == ReadyState.CONNECTING
OPEN == ReadyState.OPEN
CLOSING == ReadyState.CLOSING
CLOSED == ReadyState.CLOSED

\* JavaScript null / a present value
Null == << >>
Some(v) == << v >>

VARIABLES
    \* ---- websocket module
    wssInstance,    \* TRUE once setWebSocketServer was called
    clients,        \* wss.clients in insertion (= forEach) order: Seq(Conns)
    readyState,     \* readyState of every connection
    broken,         \* connections whose send() throws
    received,       \* number of messages delivered to each connection
    lastCall,       \* what the last broadcast call did and returned
    nBroadcasts,    \* number of direct broadcast calls made (SpecBcast)
    websocketServer,\* the indexer's this.websocketServer is set
    \* ---- clock
    now,            \* current day
    feed,           \* the price feed: the prices of token0 and token1
    \* ---- database (committed state)
    users,          \* addresses having a users row
    user_stats,     \* address -> row or NoRow
    user_actions,   \* set of committed action rows
    pools,          \* pool ids having a pools row
    \* ---- in-flight processSwap calls
    pc,             \* position of each call
    arg,            \* arguments of each call: address, poolId
    amountUsd,      \* the call's computed amountUsd
    local,          \* the call's local variables inside updateDNAScore
    tx,             \* the call's open transaction: uncommitted writes
    outcome,        \* "pending" | "returned" | "threw"
    logged,         \* the worst logger level the call has written
    \* ---- history
    log,            \* per address: the steps taken for it, in order
    \* ---- websocket module: a second server object
    standby,        \* client list of the server wssInstance does not refer to
    \* ---- db/migrate.ts
    env,            \* process.env: the value of each variable, or unset
    migratePc,      \* position of migrate()
    exitCode,       \* the code the process exited with, if it has
    queries,        \* the statements pool.query was called with, in order
    \* ---- the leaderboard page
    metric,         \* useState: the sort metric
    tierFilter,     \* useState: tier, the tier filter or null
    timeframe,      \* useState: the timeframe
    limit,          \* useState: results per page
    offset,         \* useState: index of the first result shown
    wsConnected,    \* useState: the live indicator
    lastUpdate,     \* useState: time of the last live update or null
    refetches,      \* number of calls of refetch()
    handled         \* the callbacks useWebSocket has invoked, with their time

bvars == << wssInstance, clients, readyState, broken, received, lastCall,
           nBroadcasts, websocketServer >>
dvars == << users, user_stats, user_actions, pools >>
evars == << pc, arg, amountUsd, local, tx, outcome, logged >>
mvars == << env, migratePc, exitCode, queries >>
fvars == << metric, tierFilter, timeframe, limit, offset >>
wvars == << wsConnected, lastUpdate, refetches, handled >>
xvars == << standby, mvars, fvars, wvars >>
vars == << bvars, now, feed, dvars, evars, log, xvars >>

(***************************************************************************)
(* The websocket module: broadcastToAll and the typed broadcasts.          *)
(***************************************************************************)

\* client.send(...): throws for a broken connection, delivers otherwise.
SendThrows(c) == c \in broken

\* The loop without its try/catch: the first send that throws ends the walk.
RECURSIVE ForEachClientNoCatch(_, _, _)
ForEachClientNoCatch(cs, message, acc) ==
    IF cs = << >> THEN acc
    ELSE LET c == Head(cs) IN
         IF readyState[c] = OPEN
         THEN IF SendThrows(c)
              THEN [acc EXCEPT !.failed = @ + 1, !.attempted = Append(@, c)]
              ELSE ForEachClientNoCatch(Tail(cs), message,
                       [acc EXCEPT !.sent = @ + 1,
                                   !.attempted = Append(@, c),
                                   !.delivered = Append(@, c)])
         ELSE ForEachClientNoCatch(Tail(cs), message, acc)

\* The forEach body of broadcastToAll for one client, folded over the client
\* list.  acc = [sent, failed, attempted, delivered].  A client that is not OPEN
\* is skipped; a send that throws is caught and counted, the loop goes on.
RECURSIVE ForEachClient(_, _, _)
ForEachClient(cs, message, acc) ==
    IF cs = << >> THEN acc
    ELSE LET c == Head(cs) IN
         IF readyState[c] = OPEN
         THEN IF SendThrows(c)
              THEN ForEachClient(Tail(cs), message,
                       [acc EXCEPT !.failed = @ + 1,
                                   !.attempted = Append(@, c)])
              ELSE ForEachClient(Tail(cs), message,
                       [acc EXCEPT !.sent = @ + 1,
                                   !.attempted = Append(@, c),
                                   !.delivered = Append(@, c)])
         ELSE ForEachClient(Tail(cs), message, acc)

NoSends == [sent |-> 0, failed |-> 0, attempted |-> << >>, delivered |-> << >>]
\* broadcastToAll without the test of wssInstance.
broadcastToAllUnguarded(message) ==
    ForEachClient(clients, message,
        NoSends)

\* broadcastToAll(message): {sentCount, errorCount}; nothing without a server.
broadcastToAll(message) ==
    IF ~wssInstance
    THEN NoSends
    ELSE ForEachClient(clients, message,
             NoSends)

\* The same loop as written three times in websocket-leaderboard-FIXED.js: it
\* walks the module's client list without looking at wssInstance.
ForEachClientFixed(message) ==
    ForEachClient(clients, message,
        NoSends)

\* ---- messages ----------------------------------------------------------

\* The entry with the difference taken the other way round.
RankChangeEntryReversed(c) ==
    [address |-> c.address, oldRank |-> c.oldRank, newRank |-> c.newRank,
     dnaScore |-> c.dnaScore, tier |-> c.tier,
     rankChange |-> c.newRank - c.oldRank]

\* One entry of ranking_changes as websocket-leaderboard-FIXED.js builds it:
\* the five fields copied, rankChange added.
RankChangeEntry(c) ==
    [address |-> c.address, oldRank |-> c.oldRank, newRank |-> c.newRank,
     dnaScore |-> c.dnaScore, tier |-> c.tier,
     rankChange |-> c.oldRank - c.newRank]

MapChanges(changes) ==
    [i \in 1..Len(changes) |-> RankChangeEntry(changes[i])]

LeaderboardUpdateMessage(type, data) ==
    [type |-> "leaderboard_update", updateType |-> type, data |-> data,
     timestamp |-> now]

RankingChangesMessage(changes) ==
    [type |-> "ranking_changes", changes |-> MapChanges(changes),
     timestamp |-> now]

NewLeaderMessage(leader) ==
    [type |-> "new_leader",
     leader |-> [address |-> leader.address, ensName |-> leader.ens_name,
                 dnaScore |-> leader.dna_score, tier |-> leader.tier,
                 totalPositions |-> leader.total_positions,
                 totalVolumeUsd |-> leader.total_volume_usd],
     timestamp |-> now]

\* { type: ..., ...payload }: the payload's own keys win over the ones
\* written before the spread.
Spread(base, payload) ==
    [k \in DOMAIN base \cup DOMAIN payload |->
        IF k \in DOMAIN payload THEN payload[k] ELSE base[k]]

UserUpdateMessage(payload) == Spread([type |-> "user_update"], payload)

\* One entry of ranking_changes as part_001 builds it:
\* { ...c, rankChange: c.oldRank - c.newRank }
RankChangeEntryTs(c) == Spread(c, [rankChange |-> c.oldRank - c.newRank])

MapChangesTs(changes) ==
    [i \in 1..Len(changes) |-> RankChangeEntryTs(changes[i])]

RankingChangesMessageTs(changes) ==
    [type |-> "ranking_changes", changes |-> MapChangesTs(changes),
     timestamp |-> now]

UserActionMessage(payload) == Spread([type |-> "user_action"], payload)

\* ---- what a call returns -----------------------------------------------

Undefined == << >>
Counts(r) == << [sentCount |-> r.sent, errorCount |-> r.failed] >>

\* Record of one broadcast call: the function, the implementation ("ts" is
\* the websocket module, "fixed" the FIXES file), the message, the
\* connections a send was attempted to and those it succeeded for, the
\* counts, the returned value, and the client set the loop walked (live)
\* with its OPEN members (open).
CallRecord(fn, impl, message, r, ret) ==
    LET list == IF impl = "ts" /\ ~wssInstance THEN << >> ELSE clients
        live == {list[i] : i \in 1..Len(list)}
    IN  [fn |-> fn, impl |-> impl, message |-> message,
         attempted |-> r.attempted, delivered |-> r.delivered,
         sent |-> r.sent, failed |-> r.failed,
         ret |-> ret,
         live |-> live,
         open |-> {c \in live : readyState[c] = OPEN}]

NoCall == [fn |-> "none"]
\* Delivery with a backlog: a connection that has received nothing yet is
\* also handed every message broadcast before.
DeliverBacklog(delivered) ==
    [c \in Conns |-> IF \E i \in 1..Len(delivered) : delivered[i] = c
                     THEN (IF received[c] = 0 THEN nBroadcasts + 1
                           ELSE received[c] + 1)
                     ELSE received[c]]

\* Every connection a send succeeded to has one more message.
Deliver(delivered) ==
    [c \in Conns |-> IF \E i \in 1..Len(delivered) : delivered[i] = c
                     THEN received[c] + 1 ELSE received[c]]

\* A broadcast that also clears the stats of the users.
BroadcastTsClearing(fn, message) ==
    LET r == broadcastToAll(message) IN
    /\ received' = Deliver(r.delivered)
    /\ lastCall' = CallRecord(fn, "ts", message, r, Counts(r))
    /\ UNCHANGED << wssInstance, clients, readyState, broken >>
    /\ user_stats' = [a \in Addrs |-> Null]
    /\ UNCHANGED << users, user_actions, pools >>

\* The typed broadcasts of the websocket module: all return broadcastToAll's
\* counts.  Neither file touches the database.
BroadcastTs(fn, message) ==
    LET r == broadcastToAll(message) IN
    /\ received' = Deliver(r.delivered)
    /\ lastCall' = CallRecord(fn, "ts", message, r, Counts(r))
    /\ UNCHANGED << wssInstance, clients, readyState, broken >>
    /\ UNCHANGED dvars

\* broadcastLeaderboardUpdate of the FIXES file: counts sends and errors and
\* returns both.
BroadcastLeaderboardUpdateFixed(type, data) ==
    LET message == LeaderboardUpdateMessage(type, data)
        r == ForEachClientFixed(message) IN
    /\ received' = Deliver(r.delivered)
    /\ lastCall' = CallRecord("broadcastLeaderboardUpdate", "fixed", message, r,
                              Counts(r))
    /\ UNCHANGED << wssInstance, clients, readyState, broken >>
    /\ UNCHANGED dvars

\* broadcastRankingChanges / broadcastNewLeader of the FIXES file: they count
\* sends only, log, and return nothing.
BroadcastNoResultFixed(fn, message) ==
    LET r == ForEachClientFixed(message) IN
    /\ received' = Deliver(r.delivered)
    /\ lastCall' = CallRecord(fn, "fixed", message, r, Undefined)
    /\ UNCHANGED << wssInstance, clients, readyState, broken >>
    /\ UNCHANGED dvars

\* ---- the transport: connections come and go ------------------------------

LiveSet == {clients[i] : i \in 1..Len(clients)}

Remove(seq, c) == SelectSeq(seq, LAMBDA x : x # c)

\* setWebSocketServer(wss)
SetWebSocketServer ==
    /\ ~wssInstance
    /\ wssInstance' = TRUE
    /\ UNCHANGED << clients, readyState, broken, received, nBroadcasts,
                    websocketServer >>
    /\ lastCall' = NoCall
\* setWebSocketServer(wss) called again, with another server object: the
\* module now refers to that server and its client set.
SetOtherWebSocketServer ==
    /\ wssInstance
    /\ wssInstance' = TRUE
    /\ clients' = standby
    /\ standby' = clients
    /\ UNCHANGED << readyState, broken, received, nBroadcasts,
                    websocketServer >>
    /\ lastCall' = NoCall

\* A new connection: a fresh id (ids are never reused), OPEN, added last.
Connect(c) ==
    /\ readyState[c] = CONNECTING
    /\ \A d \in Conns : d < c => readyState[d] # CONNECTING
    /\ clients' = Append(clients, c)
    /\ readyState' = [readyState EXCEPT ![c] = OPEN]
    /\ UNCHANGED << wssInstance, broken, received, nBroadcasts,
                    websocketServer >>
    /\ lastCall' = NoCall

\* The closing handshake starts: the socket is CLOSING and still in the set.
BeginClose(c) ==
    /\ c \in LiveSet
    /\ readyState[c] = OPEN
    /\ readyState' = [readyState EXCEPT ![c] = CLOSING]
    /\ broken' = broken \ {c}
    /\ UNCHANGED << wssInstance, clients, received, nBroadcasts,
                    websocketServer >>
    /\ lastCall' = NoCall

\* The 'close' event: the server drops the socket from its client set.
Close(c) ==
    /\ c \in LiveSet
    /\ readyState' = [readyState EXCEPT ![c] = CLOSED]
    /\ clients' = Remove(clients, c)
    /\ broken' = broken \ {c}
    /\ received' = [received EXCEPT ![c] = 0]
    /\ UNCHANGED << wssInstance, nBroadcasts, websocketServer >>
    /\ lastCall' = NoCall

\* The transport of an open connection breaks: send() throws from now on.
Break(c) ==
    /\ c \in LiveSet
    /\ readyState[c] = OPEN
    /\ c \notin broken
    /\ broken' = broken \cup {c}
    /\ UNCHANGED << wssInstance, clients, readyState, received,
                    nBroadcasts, websocketServer >>
    /\ lastCall' = NoCall

\* ---- direct calls of the broadcast functions ---------------------------

UpdateTypes == {"full_refresh"}

\* Two users changing places; and one entry that comes with a rankChange
\* of its own.
SampleChanges ==
    { << [address |-> "0xa", oldRank |-> 2, newRank |-> 1, dnaScore |-> 72,
          tier |-> "Expert"],
         [address |-> "0xb", oldRank |-> 1, newRank |-> 2, dnaScore |-> 61,
          tier |-> "Expert"] >>,
      << [address |-> "0xb", oldRank |-> 3, newRank |-> 5, dnaScore |-> 40,
          tier |-> "Intermediate", rankChange |-> 7] >> }

SampleLeader ==
    [address |-> "0xa", ens_name |-> Null, dna_score |-> 72, tier |-> "Expert",
     total_positions |-> 1, total_volume_usd |-> 1]

SampleUserUpdate ==
    [address |-> "0xa", dnaScore |-> 72, tier |-> "Expert", timestamp |-> now]

\* A payload that brings a type of its own.
TypedUserUpdate ==
    [type |-> "new_leader", address |-> "0xa", dnaScore |-> 72,
     tier |-> "Expert", timestamp |-> now]

UserUpdatePayloads == {SampleUserUpdate, TypedUserUpdate}

SampleUserAction ==
    [address |-> "0xa", actionType |-> "swap", poolId |-> "p1",
     amountUsd |-> Null, timestamp |-> now]

CallBroadcastLeaderboardUpdate ==
    /\ nBroadcasts < MaxBroadcasts
    /\ nBroadcasts' = nBroadcasts + 1
    /\ \E type \in UpdateTypes :
          \/ BroadcastTs("broadcastLeaderboardUpdate",
                         LeaderboardUpdateMessage(type, Null))
          \/ BroadcastLeaderboardUpdateFixed(type, Null)
    /\ UNCHANGED websocketServer

CallBroadcastRankingChanges ==
    /\ nBroadcasts < MaxBroadcasts
    /\ nBroadcasts' = nBroadcasts + 1
    /\ \E changes \in SampleChanges :
          \/ BroadcastTs("broadcastRankingChanges", RankingChangesMessageTs(changes))
          \/ BroadcastNoResultFixed("broadcastRankingChanges",
                                    RankingChangesMessage(changes))
    /\ UNCHANGED websocketServer

CallBroadcastNewLeader ==
    /\ nBroadcasts < MaxBroadcasts
    /\ nBroadcasts' = nBroadcasts + 1
    /\ \/ BroadcastTs("broadcastNewLeader", NewLeaderMessage(SampleLeader))
       \/ BroadcastNoResultFixed("broadcastNewLeader", NewLeaderMessage(SampleLeader))
    /\ UNCHANGED websocketServer

CallBroadcastUserUpdate ==
    /\ nBroadcasts < MaxBroadcasts
    /\ nBroadcasts' = nBroadcasts + 1
    /\ \E payload \in UserUpdatePayloads :
          BroadcastTs("broadcastUserUpdate", UserUpdateMessage(payload))
    /\ UNCHANGED websocketServer

CallBroadcastUserAction ==
    /\ nBroadcasts < MaxBroadcasts
    /\ nBroadcasts' = nBroadcasts + 1
    /\ BroadcastTs("broadcastUserAction", UserActionMessage(SampleUserAction))
    /\ UNCHANGED websocketServer

(***************************************************************************)
(* The score service (dnaScoreService): a pure function of the aggregates. *)
(***************************************************************************)

Min(a, b) == IF a < b THEN a ELSE b
Max(a, b) == IF a > b THEN a ELSE b
Abs(x) == IF x < 0 THEN -x ELSE x

\* floor(log2(1 + v)), the logarithmic curve of the volume component
RECURSIVE Log2(_)
Log2(v) == IF v <= 1 THEN 0 ELSE 1 + Log2(v \div 2)

\* The five components, each normalised to 0..100.
EarlyAdopter(s) == Min(100, 50 * s.totalDaysSinceFirstAction)
VolumeScore(s) == Min(100, 25 * Log2(1 + s.total_volume_usd))
LPEfficiency(s) == 0
Diversity(s) == Min(100, 20 * s.total_swaps)
Consistency(s) ==
    IF s.totalDaysSinceFirstAction = 0
    THEN (IF s.activeDays > 0 THEN 100 ELSE 0)
    ELSE Min(100, (100 * s.activeDays) \div s.totalDaysSinceFirstAction)

\* Weighted sum (20/25/25/15/15), rounded to nearest, clamped to 0..100.
calculateScore(s) ==
    LET sum == 20 * EarlyAdopter(s) + 25 * VolumeScore(s) + 25 * LPEfficiency(s)
               + 15 * Diversity(s) + 15 * Consistency(s)
    IN  Max(0, Min(100, (sum + 50) \div 100))

\* Ascending thresholds, each an inclusive lower bound.
getTier(score) ==
    IF score >= 80 THEN "Whale"
    ELSE IF score >= 60 THEN "Expert"
    ELSE IF score >= 40 THEN "Intermediate"
    ELSE IF score >= 20 THEN "Beginner"
    ELSE "Novice"

(***************************************************************************)
(* The database as the transactions of processSwap see it.  pg runs each   *)
(* withTransaction callback on its own connection at READ COMMITTED: a     *)
(* transaction reads the committed rows plus its own writes, a row it has  *)
(* written or inserted stays locked until it commits or rolls back, and a  *)
(* statement that needs a locked row waits.                                *)
(***************************************************************************)

NoTx == [open |-> FALSE, user |-> FALSE, stats |-> Null, action |-> Null,
         aborted |-> FALSE]

NoArg == [address |-> "", poolId |-> "", amount0 |-> 0, amount1 |-> 0]

NoLocal == [activeDays |-> 0, firstAction |-> Null, totalDays |-> 0,
            userStats |-> Null, dnaScore |-> 0, tier |-> ""]

\* INSERT INTO user_stats (address): the column defaults
NewStatsRow == [total_swaps |-> 0, total_volume_usd |-> 0, dna_score |-> 0,
                tier |-> "Novice"]

Address(e) == arg[e].address

\* Another open transaction has inserted the users row of a.
UserRowBusy(e, a) ==
    \E f \in Events \ {e} : tx[f].open /\ tx[f].user /\ Address(f) = a

\* Another open transaction has written (or inserted) the user_stats row of a.
StatsRowBusy(e, a) ==
    \E f \in Events \ {e} : tx[f].open /\ tx[f].stats # Null /\ Address(f) = a

\* The user_stats row of its address that transaction e sees.
VisibleStats(e) ==
    IF tx[e].stats # Null THEN tx[e].stats ELSE user_stats[Address(e)]

\* The user_actions rows of its address that transaction e sees.
VisibleActions(e) ==
    {r \in user_actions \cup (IF tx[e].action # Null THEN {tx[e].action[1]} ELSE {}) :
        r.address = Address(e)}

\* COUNT(DISTINCT DATE(timestamp))
ActiveDays(rows) == Cardinality({r.day : r \in rows})

\* MIN(timestamp), null over no rows
FirstAction(rows) ==
    IF rows = {} THEN Null
    ELSE Some(CHOOSE d \in {r.day : r \in rows} : \A r \in rows : d <= r.day)

(***************************************************************************)
(* processSwap, one action per await.                                      *)
(***************************************************************************)

LogEntry(kind, e, what) ==
    [kind |-> kind, event |-> e, address |-> Address(e), what |-> what]

\* The log with entries added, each under its address.
Logged(entries) ==
    [a \in Addrs |-> log[a] \o SelectSeq(entries, LAMBDA x : x.address = a)]

\* this.websocketServer.<fn>(payload) behind `if (this.websocketServer)`
BroadcastIfServer(e, fn, message) ==
    IF websocketServer
    THEN /\ BroadcastTs(fn, message)
         /\ log' = Logged(<< LogEntry("broadcast", e, message) >>)
    ELSE /\ UNCHANGED << wssInstance, clients, readyState, broken, received, lastCall >>
         /\ UNCHANGED log

\* A failure that takes every open transaction down with it.
ThrowAll(e) ==
    /\ pc' = [pc EXCEPT ![e] = "done"]
    /\ outcome' = [outcome EXCEPT ![e] = "threw"]
    /\ tx' = [f \in Events |-> NoTx]
    /\ amountUsd' = [amountUsd EXCEPT ![e] = Null]
    /\ local' = [local EXCEPT ![e] = NoLocal]
    /\ logged' = [logged EXCEPT ![e] = "error"]
    /\ UNCHANGED << bvars, now, feed, dvars, arg, log >>

\* An exception leaves the call: updateDNAScore's and processSwap's catch
\* blocks log it and rethrow, withTransaction rolls the transaction back.
Throw(e) ==
    /\ pc' = [pc EXCEPT ![e] = "done"]
    /\ outcome' = [outcome EXCEPT ![e] = "threw"]
    /\ tx' = [tx EXCEPT ![e] = NoTx]
    /\ amountUsd' = [amountUsd EXCEPT ![e] = Null]
    /\ local' = [local EXCEPT ![e] = NoLocal]
    /\ logged' = [logged EXCEPT ![e] = "error"]
    /\ UNCHANGED << bvars, now, feed, dvars, arg, log >>

\* The caller invokes processSwap(event, poolId, sender, amount0, amount1).
ProcessSwap(e, a, p, am) ==
    /\ pc[e] = "idle"
    /\ \A f \in Events : f < e => pc[f] # "idle"
    /\ pc' = [pc EXCEPT ![e] = "getPoolInfo"]
    /\ arg' = [arg EXCEPT ![e] = [address |-> a, poolId |-> p,
                                  amount0 |-> am[1], amount1 |-> am[2]]]
    /\ UNCHANGED << bvars, now, feed, dvars, amountUsd, local, tx, outcome, logged, log >>
\* A lookup that registers the sender before it gives up.
GetPoolInfoRegisteringUser(e) ==
    /\ pc[e] = "getPoolInfo"
    /\ \E poolInfo \in (IF arg[e].poolId \in pools THEN {TRUE, FALSE} ELSE {FALSE}) :
          IF poolInfo
          THEN /\ pc' = [pc EXCEPT ![e] = "getPrice"]
               /\ UNCHANGED << outcome, logged, dvars >>
          ELSE /\ pc' = [pc EXCEPT ![e] = "done"]
               /\ outcome' = [outcome EXCEPT ![e] = "returned"]
               /\ logged' = [logged EXCEPT ![e] = "warn"]
               /\ users' = users \cup {Address(e)}
               /\ UNCHANGED << user_stats, user_actions, pools >>
    /\ UNCHANGED << bvars, now, feed, arg, amountUsd, local, tx, log >>

\* await this.getPoolInfo(poolId): the pools row, or null when there is none
\* or the lookup fails (getPoolInfo catches every error); null ends the call.
GetPoolInfo(e) ==
    /\ pc[e] = "getPoolInfo"
    /\ \E poolInfo \in (IF arg[e].poolId \in pools THEN {TRUE, FALSE} ELSE {FALSE}) :
          IF poolInfo
          THEN /\ pc' = [pc EXCEPT ![e] = "getPrice"]
               /\ UNCHANGED << outcome, logged >>
          ELSE /\ pc' = [pc EXCEPT ![e] = "done"]
               /\ outcome' = [outcome EXCEPT ![e] = "returned"]
               /\ logged' = [logged EXCEPT ![e] = "warn"]
    /\ UNCHANGED << bvars, now, feed, dvars, arg, amountUsd, local, tx, log >>

\* The amounts of a call, in whole tokens (amount / 1e18), and the prices
\* the feed may answer with.
AmountPairs == { << -1, 1 >> }
Prices0 == {Null, Some(1)}
Prices1 == {Null, Some(2)}
\* amountUsd with token1's price tried first.
ComputeAmountUsdToken1First(amount0, amount1, price0, price1) ==
    IF price1 # Null THEN Some(Abs(amount1) * price1[1])
    ELSE IF price0 # Null THEN Some(Abs(amount0) * price0[1])
    ELSE Null

\* amountUsd from the two prices: token0's if there is one, else token1's,
\* else null.
ComputeAmountUsd(amount0, amount1, price0, price1) ==
    IF price0 # Null THEN Some(Abs(amount0) * price0[1])
    ELSE IF price1 # Null THEN Some(Abs(amount1) * price1[1])
    ELSE Null

\* await getTokenSymbol x2, await priceFeedService.getPrice x2
GetPrice(e) ==
    /\ pc[e] = "getPrice"
    /\ LET price0 == feed[1]
           price1 == feed[2]
       IN  /\ amountUsd' = [amountUsd EXCEPT ![e] =
                   ComputeAmountUsd(arg[e].amount0, arg[e].amount1, price0, price1)]
           /\ IF price0 = Null /\ price1 = Null
              THEN logged' = [logged EXCEPT ![e] = "warn"]
              ELSE UNCHANGED logged
    /\ pc' = [pc EXCEPT ![e] = "begin"]
    /\ UNCHANGED << bvars, now, feed, dvars, arg, local, tx, outcome, log >>

\* withTransaction: BEGIN
Begin(e) ==
    /\ pc[e] = "begin"
    /\ tx' = [tx EXCEPT ![e] = [NoTx EXCEPT !.open = TRUE]]
    /\ pc' = [pc EXCEPT ![e] = "insertUser"]
    /\ UNCHANGED << bvars, now, feed, dvars, arg, amountUsd, local, outcome, logged, log >>

\* INSERT INTO users (address) ... ON CONFLICT DO NOTHING
InsertUser(e) ==
    /\ pc[e] = "insertUser"
    /\ ~UserRowBusy(e, Address(e))
    /\ tx' = [tx EXCEPT ![e].user = (Address(e) \notin users)]
    /\ pc' = [pc EXCEPT ![e] = "insertStats"]
    /\ UNCHANGED << bvars, now, feed, dvars, arg, amountUsd, local, outcome, logged, log >>
\* The statement left out: no row is inserted.
InsertStatsOmitted(e) ==
    /\ pc[e] = "insertStats"
    /\ user_stats[Address(e)] = Null => ~StatsRowBusy(e, Address(e))
    /\ tx' = [tx EXCEPT ![e].stats = Null]
    /\ pc' = [pc EXCEPT ![e] = "insertAction"]
    /\ UNCHANGED << bvars, now, feed, dvars, arg, amountUsd, local, outcome, logged, log >>

\* INSERT INTO user_stats (address) ... ON CONFLICT DO NOTHING
InsertStats(e) ==
    /\ pc[e] = "insertStats"
    /\ user_stats[Address(e)] = Null => ~StatsRowBusy(e, Address(e))
    /\ tx' = [tx EXCEPT ![e].stats =
                 IF user_stats[Address(e)] = Null THEN Some(NewStatsRow) ELSE Null]
    /\ pc' = [pc EXCEPT ![e] = "insertAction"]
    /\ UNCHANGED << bvars, now, feed, dvars, arg, amountUsd, local, outcome, logged, log >>

\* INSERT INTO user_actions (...) VALUES (..., amount_usd, tx_hash, ..., NOW())
InsertAction(e) ==
    /\ pc[e] = "insertAction"
    /\ tx' = [tx EXCEPT ![e].action =
                 Some([address |-> Address(e), tx_hash |-> e, day |-> now,
                       amount_usd |-> amountUsd[e]])]
    /\ pc' = [pc EXCEPT ![e] = "updateStats"]
    /\ UNCHANGED << bvars, now, feed, dvars, arg, amountUsd, local, outcome, logged, log >>

\* The row after UPDATE user_stats SET total_swaps = total_swaps + 1
\* [, total_volume_usd = total_volume_usd + $2]
UpdatedStats(row, amount) ==
    [row EXCEPT !.total_swaps = @ + 1,
                !.total_volume_usd = IF amount # Null THEN @ + amount[1] ELSE @]

\* The UPDATE waits for the row while another transaction holds it.
UpdateStatsReady(e) == ~StatsRowBusy(e, Address(e))

UpdateStats(e) ==
    /\ pc[e] = "updateStats"
    /\ UpdateStatsReady(e)
    /\ tx' = [tx EXCEPT ![e].stats =
                 IF VisibleStats(e) = Null THEN Null
                 ELSE Some(UpdatedStats(VisibleStats(e)[1], amountUsd[e]))]
    /\ log' = Logged(<< LogEntry("statsWrite", e, tx'[e].stats) >>)
    /\ pc' = [pc EXCEPT ![e] = "activeDays"]
    /\ UNCHANGED << bvars, now, feed, dvars, arg, amountUsd, local, outcome, logged >>

(***************************************************************************)
(* updateDNAScore(client, address), inside the transaction.                *)
(***************************************************************************)

\* SELECT COUNT(DISTINCT DATE(timestamp)) ... FROM user_actions
QueryActiveDays(e) ==
    /\ pc[e] = "activeDays"
    /\ local' = [local EXCEPT ![e].activeDays = ActiveDays(VisibleActions(e))]
    /\ pc' = [pc EXCEPT ![e] = "firstAction"]
    /\ UNCHANGED << bvars, now, feed, dvars, arg, amountUsd, tx, outcome, logged, log >>

\* SELECT MIN(timestamp) ...; then totalDaysSinceFirstAction from Date.now()
QueryFirstAction(e) ==
    /\ pc[e] = "firstAction"
    /\ LET first == FirstAction(VisibleActions(e)) IN
       local' = [local EXCEPT ![e].firstAction = first,
                              ![e].totalDays =
                                  IF first # Null THEN now - first[1] ELSE 0]
    /\ pc' = [pc EXCEPT ![e] = "selectStats"]
    /\ UNCHANGED << bvars, now, feed, dvars, arg, amountUsd, tx, outcome, logged, log >>

\* The object with the row's last score counted in among its swaps.
ScoreInputWithScore(row, activeDays, totalDays) ==
    [total_swaps |-> row.total_swaps + row.dna_score,
     total_volume_usd |-> row.total_volume_usd,
     activeDays |-> activeDays, totalDaysSinceFirstAction |-> totalDays]

\* The object handed to calculateScore: the row plus the two real values.
ScoreInput(row, activeDays, totalDays) ==
    [total_swaps |-> row.total_swaps, total_volume_usd |-> row.total_volume_usd,
     activeDays |-> activeDays, totalDaysSinceFirstAction |-> totalDays]

\* The same SELECT sent through the pool instead of the transaction's client:
\* it sees committed rows only.
SelectUserStatsCommitted(e) == user_stats[Address(e)]

\* client.query(`SELECT * FROM user_stats WHERE address = $1`): run on the
\* transaction's own client, so it sees the transaction's own writes.
SelectUserStats(e) == VisibleStats(e)

\* What a score computation was given (the aggregates of the row, activeDays,
\* totalDaysSinceFirstAction) and what it gave.
Computation(e, row, dnaScore) ==
    Some([total_swaps |-> row.total_swaps,
          total_volume_usd |-> row.total_volume_usd,
          activeDays |-> local[e].activeDays,
          totalDays |-> local[e].totalDays,
          dnaScore |-> dnaScore, tier |-> getTier(dnaScore)])

\* No row: warn and return to the transaction callback.  Otherwise compute
\* score and tier.
SelectStats(e) ==
    /\ pc[e] = "selectStats"
    /\ IF SelectUserStats(e) = Null
       THEN /\ pc' = [pc EXCEPT ![e] = "commit"]
            /\ logged' = [logged EXCEPT ![e] = "warn"]
            /\ UNCHANGED << local, log >>
       ELSE LET row == SelectUserStats(e)[1]
                dnaScore == calculateScore(
                    ScoreInput(row, local[e].activeDays, local[e].totalDays))
            IN  /\ local' = [local EXCEPT ![e].userStats = Some(row),
                                          ![e].dnaScore = dnaScore,
                                          ![e].tier = getTier(dnaScore)]
                /\ pc' = [pc EXCEPT ![e] = "updateScore"]
                /\ log' = Logged(<< LogEntry("compute", e,
                                       Computation(e, row, dnaScore)) >>)
                /\ UNCHANGED logged
    /\ UNCHANGED << bvars, now, feed, dvars, arg, amountUsd, tx, outcome >>
\* The UPDATE with the score alone: the tier of the row stays as it was.
ScoredStatsScoreOnly(row, dnaScore, tier) ==
    [row EXCEPT !.dna_score = dnaScore]

\* The row after UPDATE user_stats SET dna_score = $2, tier = $3
ScoredStats(row, dnaScore, tier) ==
    [row EXCEPT !.dna_score = dnaScore, !.tier = tier]
\* The payload built from the row as it was read, before the new score.
UserUpdatePayloadStale(e) ==
    [address |-> Address(e), dnaScore |-> local[e].userStats[1].dna_score,
     tier |-> local[e].userStats[1].tier, timestamp |-> now]

UserUpdatePayload(e) ==
    [address |-> Address(e), dnaScore |-> local[e].dnaScore,
     tier |-> local[e].tier, timestamp |-> now]

\* The score write, and after it in the same turn: the user_update broadcast
\* and the call of checkLeaderboardChange.
UpdateScore(e) ==
    /\ pc[e] = "updateScore"
    /\ tx' = [tx EXCEPT ![e].stats =
                 IF VisibleStats(e) = Null THEN Null
                 ELSE Some(ScoredStats(VisibleStats(e)[1], local[e].dnaScore,
                                       local[e].tier))]
    /\ IF websocketServer
       THEN /\ BroadcastTs("broadcastUserUpdate",
                           UserUpdateMessage(UserUpdatePayload(e)))
            /\ log' = Logged(<< LogEntry("scoreWrite", e, tx'[e].stats),
                                   LogEntry("broadcast", e,
                                       UserUpdateMessage(UserUpdatePayload(e))) >>)
       ELSE /\ UNCHANGED << wssInstance, clients, readyState, broken, received, lastCall >>
            /\ log' = Logged(<< LogEntry("scoreWrite", e, tx'[e].stats) >>)
    /\ pc' = [pc EXCEPT ![e] = "checkLeaderboard"]
    /\ UNCHANGED << nBroadcasts, websocketServer, now, feed, dvars, arg, amountUsd,
                    local, outcome, logged >>

\* The user_stats table as transaction e reads it: the committed rows, and
\* its own write in place of the row of its address.
VisibleTable(e) ==
    [a \in Addrs |-> IF a = Address(e) THEN VisibleStats(e) ELSE user_stats[a]]

\* The same table before transaction e touched the row of its address.
TableBefore(e) == user_stats

\* All orders of the members of a set.
Orders(S) ==
    {s \in [1..Cardinality(S) -> S] : \A i, j \in 1..Cardinality(S) :
                                          i # j => s[i] # s[j]}

\* SELECT ROW_NUMBER() OVER (ORDER BY dna_score DESC) as rank, address
\* FROM user_stats WHERE dna_score > 0: the possible results.  The ORDER BY
\* names no second key, so rows of equal dna_score come in any order.
RankQuery(t) ==
    LET ranked == {a \in Addrs : t[a] # Null /\ t[a][1].dna_score > 0}
    IN  {s \in Orders(ranked) :
            \A i, j \in 1..Len(s) :
                i < j => t[s[i]][1].dna_score >= t[s[j]][1].dna_score}

\* currentRankResult.rows.find(r => r.address === address)?.rank
CurrentRank(rows, a) ==
    IF \E i \in 1..Len(rows) : rows[i] = a
    THEN Some(CHOOSE i \in 1..Len(rows) : rows[i] = a)
    ELSE Null

\* The order of addresses (ascending).
AddressOrder == << "0xa", "0xb" >>
AddressBefore(a, b) ==
    \E i, j \in 1..Len(AddressOrder) :
        i < j /\ AddressOrder[i] = a /\ AddressOrder[j] = b

\* b stands before a when all known users are ordered by score descending,
\* address ascending.
RanksBefore(t, b, a) ==
    \/ t[b][1].dna_score > t[a][1].dna_score
    \/ t[b][1].dna_score = t[a][1].dna_score /\ AddressBefore(b, a)

\* The 1-based rank of a among all known users of table t in that order;
\* none for a user without a row.
Rank(t, a) ==
    IF t[a] = Null THEN Null
    ELSE Some(1 + Cardinality({b \in Addrs \ {a} :
                                  t[b] # Null /\ RanksBefore(t, b, a)}))

\* What a rank check saw: the rows of the query and the rank read from
\* them, and the ranks of the address before and after the score update.
RankObservation(e, rows) ==
    Some([rows |-> rows,
          currentRank |-> CurrentRank(rows, Address(e)),
          oldRank |-> Rank(TableBefore(e), Address(e)),
          newRank |-> Rank(VisibleTable(e), Address(e))])

\* A rank check that reports the rank it read as a change.
RankChangeResultCurrent(observation) ==
    Some([newRank |-> observation.currentRank, oldRank |-> Null])

\* What checkLeaderboardChange returns after the query: the rank it read is
\* compared with nothing ("For now, return null (no change detection)").
RankChangeResult(observation) == Null

\* The data of the leaderboard_update sent for a reported rank change.
RankChangeData(e, rankChange) ==
    [address |-> Address(e), newRank |-> rankChange.newRank,
     oldRank |-> rankChange.oldRank, dnaScore |-> local[e].dnaScore,
     tier |-> local[e].tier]

\* checkLeaderboardChange and the lines after its call: the rank query, and
\* a leaderboard_update broadcast if it returned a rank change.  It returns
\* null, also when the query fails (the error is caught there); a failed
\* statement leaves the transaction aborted.
CheckLeaderboardChange(e) ==
    /\ pc[e] = "checkLeaderboard"
    /\ \/ /\ tx' = [tx EXCEPT ![e].aborted = TRUE]
          /\ logged' = [logged EXCEPT ![e] = "error"]
          /\ log' = Logged(<< LogEntry("rankQueryFailed", e, Null) >>)
          /\ UNCHANGED << wssInstance, clients, readyState, broken, received,
                          lastCall >>
       \/ \E rows \in RankQuery(VisibleTable(e)) :
             LET observation == RankObservation(e, rows)
                 rankChange == RankChangeResult(observation[1])
             IN  /\ IF rankChange # Null /\ websocketServer
                    THEN LET message == LeaderboardUpdateMessage("incremental",
                                            RankChangeData(e, rankChange[1]))
                         IN  /\ BroadcastTs("broadcastLeaderboardUpdate", message)
                             /\ log' = Logged(<< LogEntry("rankCheck", e, observation),
                                                 LogEntry("broadcast", e, message) >>)
                    ELSE /\ log' = Logged(<< LogEntry("rankCheck", e, observation) >>)
                         /\ UNCHANGED << wssInstance, clients, readyState, broken,
                                         received, lastCall >>
                 /\ UNCHANGED << tx, logged >>
    /\ pc' = [pc EXCEPT ![e] = "commit"]
    /\ UNCHANGED << nBroadcasts, websocketServer, now, feed, dvars, arg, amountUsd,
                    local, outcome >>

(***************************************************************************)
(* The end of withTransaction and of processSwap.                          *)
(***************************************************************************)

\* The committed tables after transaction e's writes are applied.
CommittedUsers(e) == IF tx[e].user THEN users \cup {Address(e)} ELSE users

CommittedStats(e) ==
    IF tx[e].stats # Null THEN [user_stats EXCEPT ![Address(e)] = tx[e].stats]
    ELSE user_stats

CommittedActions(e) ==
    IF tx[e].action # Null THEN user_actions \cup {tx[e].action[1]}
    ELSE user_actions

\* COMMIT.  The writes become visible and the row locks are released; on a
\* transaction a failed statement has aborted, COMMIT ends it as a rollback
\* and reports no error.
Commit(e) ==
    /\ pc[e] = "commit"
    /\ IF tx[e].aborted
       THEN /\ UNCHANGED dvars
            /\ log' = Logged(<< LogEntry("rollback", e, Null) >>)
       ELSE /\ users' = CommittedUsers(e)
            /\ user_stats' = CommittedStats(e)
            /\ user_actions' = CommittedActions(e)
            /\ UNCHANGED pools
            /\ log' = Logged(<< LogEntry("commit", e, tx[e].stats) >>)
    /\ tx' = [tx EXCEPT ![e] = NoTx]
    /\ pc' = [pc EXCEPT ![e] = "afterCommit"]
    /\ UNCHANGED << bvars, now, feed, arg, amountUsd, local, outcome, logged >>

UserActionPayload(e) ==
    [address |-> Address(e), actionType |-> "swap", poolId |-> arg[e].poolId,
     amountUsd |-> amountUsd[e], timestamp |-> now]

\* After `await withTransaction(...)`: the user_action broadcast, the info
\* log line, and the call returns.
AfterCommit(e) ==
    /\ pc[e] = "afterCommit"
    /\ BroadcastIfServer(e, "broadcastUserAction",
                         UserActionMessage(UserActionPayload(e)))
    /\ pc' = [pc EXCEPT ![e] = "done"]
    /\ outcome' = [outcome EXCEPT ![e] = "returned"]
    /\ amountUsd' = [amountUsd EXCEPT ![e] = Null]
    /\ local' = [local EXCEPT ![e] = NoLocal]
    /\ UNCHANGED << nBroadcasts, websocketServer, now, feed, dvars, arg, tx, logged >>

\* The awaits a persistence failure can strike: BEGIN, the statements of the
\* transaction callback and of updateDNAScore, COMMIT.
PersistencePcs ==
    {"begin", "insertUser", "insertStats", "insertAction", "updateStats",
     "activeDays", "firstAction", "selectStats", "updateScore", "commit"}

\* The statement the call is waiting on fails: the rejection travels up
\* through the catch blocks (log, rethrow) to the caller of processSwap.
PersistenceFailure(e) ==
    /\ pc[e] \in PersistencePcs
    /\ Throw(e)

(***************************************************************************)
(* db/migrate.ts: the migration script.                                    *)
(***************************************************************************)

EnvNames == {"DATABASE_URL", "DB_HOST", "DB_NAME", "DB_USER"}

\* A variable of process.env is unset, set to the empty string, or set.
EnvValues == {Null, Some(""), Some("postgres")}

\* !v of JavaScript for a string or undefined
Not(v) == v = Null \/ v = Some("")

\* if (!connectionString && (!process.env.DB_HOST || !process.env.DB_NAME ||
\*     process.env.DB_USER))
ConfigMissing(connectionString) ==
    /\ Not(connectionString)
    /\ (Not(env["DB_HOST"]) \/ Not(env["DB_NAME"]) \/ ~Not(env["DB_USER"]))

MigrationNotStarted ==
    /\ migratePc = "start"
    /\ exitCode = Null
    /\ queries = << >>

\* process.exit(code)
Exit(code) ==
    /\ exitCode' = Some(code)
    /\ migratePc' = "exited"

\* migrate() up to the try block: the pool is created (no connection is
\* made yet), the configuration is checked.
CheckConfig ==
    /\ migratePc = "start"
    /\ LET connectionString == env["DATABASE_URL"] IN
       IF ConfigMissing(connectionString)
       THEN Exit(1)
       ELSE migratePc' = "testConnection" /\ UNCHANGED exitCode
    /\ UNCHANGED << env, queries >>

\* await pool.query('SELECT NOW()')
TestConnection(ok) ==
    /\ migratePc = "testConnection"
    /\ queries' = Append(queries, "SELECT NOW()")
    /\ migratePc' = IF ok THEN "runMigration" ELSE "catch"
    /\ UNCHANGED << env, exitCode >>

\* The migration file is looked up, read and executed.
RunMigration(exists, ok) ==
    /\ migratePc = "runMigration"
    /\ IF ~exists
       THEN migratePc' = "catch" /\ UNCHANGED queries
       ELSE /\ queries' = Append(queries, "001_initial_schema.sql")
            /\ migratePc' = IF ok THEN "verify" ELSE "catch"
    /\ UNCHANGED << env, exitCode >>

\* The tables are listed, the pool is closed, the process exits with 0.
VerifyTables(ok) ==
    /\ migratePc = "verify"
    /\ queries' = Append(queries, "SELECT table_name")
    /\ IF ok THEN Exit(0) ELSE migratePc' = "catch" /\ UNCHANGED exitCode
    /\ UNCHANGED env

\* catch (error): the error is reported, the pool closed, exit code 1.
MigrationFailed ==
    /\ migratePc = "catch"
    /\ Exit(1)
    /\ UNCHANGED << env, queries >>

(***************************************************************************)
(* The leaderboard page: the LeaderboardPage component, its filters, its   *)
(* pagination and the handlers it gives to useWebSocket.                   *)
(***************************************************************************)

Metrics == {"dna_score", "total_volume_usd", "total_fees_earned",
            "total_positions"}
TierOptions == {Null, Some("Whale"), Some("Expert"), Some("Intermediate"),
                Some("Beginner"), Some("Novice")}
Timeframes == {"24h", "7d", "30d", "all"}
LimitOptions == {25, 50, 100}

\* The useState initial values of the filters and of the pagination.
PageFirstRender ==
    /\ metric = "dna_score"
    /\ tierFilter = Null
    /\ timeframe = "all"
    /\ limit = 100
    /\ offset = 0

\* const currentPage = Math.floor(offset / limit) + 1
currentPage == (offset \div limit) + 1

\* The Next button.  Whether it is enabled depends on the rows fetched; the
\* model lets the user page on up to MaxPage.
goToNextPage ==
    /\ currentPage < MaxPage
    /\ offset' = offset + limit
    /\ UNCHANGED << metric, tierFilter, timeframe, limit >>

\* The Previous button, disabled on the first page.
goToPrevPage ==
    /\ offset # 0
    /\ offset' = (IF offset - limit > 0 THEN offset - limit ELSE 0)
    /\ UNCHANGED << metric, tierFilter, timeframe, limit >>

\* onChange of the Sort By select
ChangeMetric(value) ==
    /\ value # metric
    /\ metric' = value
    /\ offset' = 0
    /\ UNCHANGED << tierFilter, timeframe, limit >>

\* onChange of the Tier select: the empty option is null
ChangeTier(value) ==
    /\ value # tierFilter
    /\ tierFilter' = value
    /\ offset' = 0
    /\ UNCHANGED << metric, timeframe, limit >>

\* onChange of the Timeframe select
ChangeTimeframe(value) ==
    /\ value # timeframe
    /\ timeframe' = value
    /\ offset' = 0
    /\ UNCHANGED << metric, tierFilter, limit >>

\* A Results select that keeps the offset.
ChangeLimitKeepingOffset(value) ==
    /\ value # limit
    /\ limit' = value
    /\ UNCHANGED << metric, tierFilter, timeframe, offset >>

\* onChange of the Results select
ChangeLimit(value) ==
    /\ value # limit
    /\ limit' = value
    /\ offset' = 0
    /\ UNCHANGED << metric, tierFilter, timeframe >>

\* ---- the handlers given to useWebSocket -----------------------------------

MessageTypes == {"leaderboard_update", "ranking_changes", "new_leader",
                 "user_update", "user_action"}

\* The useState initial values of the live indicator.
LiveNotConnected ==
    /\ wsConnected = FALSE
    /\ lastUpdate = Null
    /\ refetches = 0
    /\ handled = << >>

Handled(callback, type) == [callback |-> callback, type |-> type, at |-> now]

onConnect ==
    /\ Len(handled) < MaxHandled
    /\ wsConnected' = TRUE
    /\ handled' = Append(handled, Handled("onConnect", Null))
    /\ UNCHANGED << lastUpdate, refetches >>

onDisconnect ==
    /\ Len(handled) < MaxHandled
    /\ wsConnected' = FALSE
    /\ handled' = Append(handled, Handled("onDisconnect", Null))
    /\ UNCHANGED << lastUpdate, refetches >>

\* A handler that refetches whatever the message is.
RefetchesForAny(msg) == 1

\* The three if statements of onMessage, one after the other: the number of
\* them whose test the message passes.
RefetchesFor(msg) ==
    (IF msg.type = "leaderboard_update" THEN 1 ELSE 0)
    + (IF msg.type = "ranking_changes" THEN 1 ELSE 0)
    + (IF msg.type = "new_leader" THEN 1 ELSE 0)

\* onMessage: each if that matches does setLastUpdate(new Date()); refetch()
onMessage(msg) ==
    /\ Len(handled) < MaxHandled
    /\ handled' = Append(handled, Handled("onMessage", Some(msg.type)))
    /\ refetches' = refetches + RefetchesFor(msg)
    /\ lastUpdate' = IF RefetchesFor(msg) > 0 THEN Some(now) ELSE lastUpdate
    /\ UNCHANGED wsConnected

(***************************************************************************)
(* Initial states and specifications.                                      *)
(***************************************************************************)

KnownPools == {"p1"}

\* 0xa has swapped once (on day 0, for 1 USD) and was scored; 0xb is new.
InitialStatsA ==
    LET row == [total_swaps |-> 1, total_volume_usd |-> 1, dna_score |-> 0,
                tier |-> ""]
        score == calculateScore(ScoreInput(row, 1, 0))
    IN  ScoredStats(row, score, getTier(score))

InitDatabase ==
    /\ now = 0
    /\ users = {"0xa"}
    /\ user_stats = [a \in Addrs |-> IF a = "0xa" THEN Some(InitialStatsA) ELSE Null]
    /\ user_actions = {[address |-> "0xa", tx_hash |-> 0, day |-> 0,
                        amount_usd |-> Some(1)]}
    /\ pools = KnownPools

InitCalls ==
    /\ pc = [e \in Events |-> "idle"]
    /\ arg = [e \in Events |-> NoArg]
    /\ amountUsd = [e \in Events |-> Null]
    /\ local = [e \in Events |-> NoLocal]
    /\ tx = [e \in Events |-> NoTx]
    /\ outcome = [e \in Events |-> "pending"]
    /\ logged = [e \in Events |-> "info"]
    /\ log = [a \in Addrs |-> << >>]

\* The parts of the system a specification does not exercise: no second
\* server, migrate() not started, the page as first rendered.
InitElsewhere ==
    /\ standby = << >>
    /\ env = [n \in EnvNames |-> Null]
    /\ MigrationNotStarted
    /\ PageFirstRender
    /\ LiveNotConnected

\* The backend at rest: server not yet registered, nobody connected, no
\* call of processSwap.
InitBackend ==
    /\ wssInstance = FALSE
    /\ clients = << >>
    /\ readyState = [c \in Conns |-> CONNECTING]
    /\ broken = {}
    /\ received = [c \in Conns |-> 0]
    /\ lastCall = NoCall
    /\ nBroadcasts = 0
    /\ websocketServer = TRUE
    /\ feed = << Null, Null >>
    /\ InitDatabase
    /\ InitCalls

\* The broadcaster on its own.
InitBcast ==
    /\ InitBackend
    /\ InitElsewhere

NextBcast ==
    \/ SetWebSocketServer /\ UNCHANGED << now, feed, dvars, evars, log >> /\ UNCHANGED xvars
    \/ SetOtherWebSocketServer /\ UNCHANGED << now, feed, dvars, evars, log, mvars, fvars, wvars >>
    \/ \E c \in Conns : Connect(c) /\ UNCHANGED << now, feed, dvars, evars, log >> /\ UNCHANGED xvars
    \/ \E c \in Conns : BeginClose(c) /\ UNCHANGED << now, feed, dvars, evars, log >> /\ UNCHANGED xvars
    \/ \E c \in Conns : Close(c) /\ UNCHANGED << now, feed, dvars, evars, log >> /\ UNCHANGED xvars
    \/ \E c \in Conns : Break(c) /\ UNCHANGED << now, feed, dvars, evars, log >> /\ UNCHANGED xvars
    \/ CallBroadcastLeaderboardUpdate /\ UNCHANGED << now, feed, evars, log >> /\ UNCHANGED xvars
    \/ CallBroadcastRankingChanges /\ UNCHANGED << now, feed, evars, log >> /\ UNCHANGED xvars
    \/ CallBroadcastNewLeader /\ UNCHANGED << now, feed, evars, log >> /\ UNCHANGED xvars
    \/ CallBroadcastUserUpdate /\ UNCHANGED << now, feed, evars, log >> /\ UNCHANGED xvars
    \/ CallBroadcastUserAction /\ UNCHANGED << now, feed, evars, log >> /\ UNCHANGED xvars

SpecBcast == InitBcast /\ [][NextBcast]_vars

\* The indexer at work: the server is registered, connection 1 is open and
\* healthy, connection 2 is open with a broken transport, the last one is
\* closing; this.websocketServer may or may not have been injected; the feed
\* knows each token's price or not.
InitCoord ==
    /\ wssInstance = TRUE
    /\ clients = [i \in 1..MaxConns |-> i]
    /\ readyState = [c \in Conns |-> IF c = MaxConns THEN CLOSING ELSE OPEN]
    /\ broken = {c \in Conns : c = 2}
    /\ received = [c \in Conns |-> 0]
    /\ lastCall = NoCall
    /\ nBroadcasts = 0
    /\ websocketServer \in BOOLEAN
    /\ feed \in Prices0 \X Prices1
    /\ InitDatabase
    /\ InitCalls
    /\ InitElsewhere

NextCoord ==
    \/ \E e \in Events, a \in Addrs, p \in Pools, am \in AmountPairs :
          ProcessSwap(e, a, p, am) /\ UNCHANGED xvars
    \/ \E e \in Events : GetPoolInfo(e) /\ UNCHANGED xvars
    \/ \E e \in Events : GetPrice(e) /\ UNCHANGED xvars
    \/ \E e \in Events : Begin(e) /\ UNCHANGED xvars
    \/ \E e \in Events : InsertUser(e) /\ UNCHANGED xvars
    \/ \E e \in Events : InsertStats(e) /\ UNCHANGED xvars
    \/ \E e \in Events : InsertAction(e) /\ UNCHANGED xvars
    \/ \E e \in Events : UpdateStats(e) /\ UNCHANGED xvars
    \/ \E e \in Events : QueryActiveDays(e) /\ UNCHANGED xvars
    \/ \E e \in Events : QueryFirstAction(e) /\ UNCHANGED xvars
    \/ \E e \in Events : SelectStats(e) /\ UNCHANGED xvars
    \/ \E e \in Events : UpdateScore(e) /\ UNCHANGED xvars
    \/ \E e \in Events : CheckLeaderboardChange(e) /\ UNCHANGED xvars
    \/ \E e \in Events : Commit(e) /\ UNCHANGED xvars
    \/ \E e \in Events : AfterCommit(e) /\ UNCHANGED xvars
    \/ \E e \in Events : PersistenceFailure(e) /\ UNCHANGED xvars

SpecCoord == InitCoord /\ [][NextCoord]_vars

(***************************************************************************)
(* updateDNAScore on its own: the score of one user recomputed, once and   *)
(* again, from aggregates of every size within the bounds.                 *)
(***************************************************************************)

\* A day passes.
Tick ==
    /\ now < MaxDay
    /\ now' = now + 1
    /\ UNCHANGED << bvars, feed, dvars, evars, log >>

\* updateDNAScore(client, address) is called for 0xa on the client of a new
\* transaction, the calls one after the other.
Recompute(e) ==
    /\ pc[e] = "idle"
    /\ \A f \in Events : f < e => pc[f] = "afterCommit"
    /\ arg' = [arg EXCEPT ![e] = [NoArg EXCEPT !.address = "0xa"]]
    /\ tx' = [tx EXCEPT ![e] = [NoTx EXCEPT !.open = TRUE]]
    /\ pc' = [pc EXCEPT ![e] = "activeDays"]
    /\ UNCHANGED << bvars, now, feed, dvars, amountUsd, local, outcome, logged, log >>

\* 0xa has a user_stats row with any aggregates and no score yet, and
\* actions on any of the days so far.
InitScore ==
    /\ wssInstance = TRUE
    /\ clients = << 1 >>
    /\ readyState = [c \in Conns |-> IF c = 1 THEN OPEN ELSE CONNECTING]
    /\ broken = {}
    /\ received = [c \in Conns |-> 0]
    /\ lastCall = NoCall
    /\ nBroadcasts = 0
    /\ websocketServer = TRUE
    /\ feed = << Null, Null >>
    /\ now \in 0..MaxDay
    /\ users = {"0xa"}
    /\ \E swaps \in 0..MaxSwaps, volume \in 0..MaxVolume :
          user_stats = [a \in Addrs |->
                           IF a = "0xa"
                           THEN Some([NewStatsRow EXCEPT
                                         !.total_swaps = swaps,
                                         !.total_volume_usd = volume])
                           ELSE Null]
    /\ \E days \in SUBSET (0..now) :
          user_actions = {[address |-> "0xa", tx_hash |-> d, day |-> d,
                           amount_usd |-> Null] : d \in days}
    /\ pools = KnownPools
    /\ InitCalls
    /\ InitElsewhere

NextScore ==
    \/ Tick /\ UNCHANGED xvars
    \/ \E e \in Events : Recompute(e) /\ UNCHANGED xvars
    \/ \E e \in Events : QueryActiveDays(e) /\ UNCHANGED xvars
    \/ \E e \in Events : QueryFirstAction(e) /\ UNCHANGED xvars
    \/ \E e \in Events : SelectStats(e) /\ UNCHANGED xvars
    \/ \E e \in Events : UpdateScore(e) /\ UNCHANGED xvars
    \/ \E e \in Events : CheckLeaderboardChange(e) /\ UNCHANGED xvars
    \/ \E e \in Events : Commit(e) /\ UNCHANGED xvars

SpecScore == InitScore /\ [][NextScore]_vars

(***************************************************************************)
(* The migration script, run once in every environment.                    *)
(***************************************************************************)

InitMigrate ==
    /\ InitBackend
    /\ standby = << >>
    /\ env \in [EnvNames -> EnvValues]
    /\ MigrationNotStarted
    /\ PageFirstRender
    /\ LiveNotConnected

NextMigrate ==
    \/ CheckConfig /\ UNCHANGED << bvars, now, feed, dvars, evars, log, standby, fvars, wvars >>
    \/ \E ok \in BOOLEAN : TestConnection(ok) /\ UNCHANGED << bvars, now, feed, dvars, evars, log, standby, fvars, wvars >>
    \/ \E exists, ok \in BOOLEAN : RunMigration(exists, ok) /\ UNCHANGED << bvars, now, feed, dvars, evars, log, standby, fvars, wvars >>
    \/ \E ok \in BOOLEAN : VerifyTables(ok) /\ UNCHANGED << bvars, now, feed, dvars, evars, log, standby, fvars, wvars >>
    \/ MigrationFailed /\ UNCHANGED << bvars, now, feed, dvars, evars, log, standby, fvars, wvars >>

SpecMigrate == InitMigrate /\ [][NextMigrate]_vars

(***************************************************************************)
(* The leaderboard page: its filters and pagination; and its live updates. *)
(***************************************************************************)

InitPage ==
    /\ InitBackend
    /\ InitElsewhere

NextPage ==
    \/ goToNextPage /\ UNCHANGED << bvars, now, feed, dvars, evars, log, standby, mvars, wvars >>
    \/ goToPrevPage /\ UNCHANGED << bvars, now, feed, dvars, evars, log, standby, mvars, wvars >>
    \/ \E value \in Metrics : ChangeMetric(value) /\ UNCHANGED << bvars, now, feed, dvars, evars, log, standby, mvars, wvars >>
    \/ \E value \in TierOptions : ChangeTier(value) /\ UNCHANGED << bvars, now, feed, dvars, evars, log, standby, mvars, wvars >>
    \/ \E value \in Timeframes : ChangeTimeframe(value) /\ UNCHANGED << bvars, now, feed, dvars, evars, log, standby, mvars, wvars >>
    \/ \E value \in LimitOptions : ChangeLimit(value) /\ UNCHANGED << bvars, now, feed, dvars, evars, log, standby, mvars, wvars >>

SpecPage == InitPage /\ [][NextPage]_vars

InitLive ==
    /\ InitBackend
    /\ InitElsewhere

NextLive ==
    \/ Tick /\ UNCHANGED xvars
    \/ onConnect /\ UNCHANGED << bvars, now, feed, dvars, evars, log, standby, mvars, fvars >>
    \/ onDisconnect /\ UNCHANGED << bvars, now, feed, dvars, evars, log, standby, mvars, fvars >>
    \/ \E type \in MessageTypes : onMessage([type |-> type]) /\ UNCHANGED << bvars, now, feed, dvars, evars, log, standby, mvars, fvars >>

SpecLive == InitLive /\ [][NextLive]_vars

(***************************************************************************)
(* Properties.                                                             *)
(***************************************************************************)

Range(seq) == {seq[i] : i \in 1..Len(seq)}

\* A broadcast call has just been made; the connections its send threw for.
Called == lastCall.fn # "none"
ThrewIn(call) == Range(call.attempted) \ Range(call.delivered)

\* The log entries of one address that satisfy a test, as a sequence.
Entries(a, kind) == SelectSeq(log[a], LAMBDA x : x.kind = kind)

IsUserUpdate(x) == x.kind = "broadcast" /\ x.what.type = "user_update"

Started(e) == pc[e] # "idle"

\* C1: two events for the same address never interleave: in the steps taken
\* for one address (stats write, score write, rank check, commit,
\* broadcasts), the steps of one event are contiguous, so all steps of one
\* event finish before any step of another begins.
C1_Serialized ==
    \A a \in Addrs : \A i, j, k \in 1..Len(log[a]) :
        (i < j /\ j < k /\ log[a][i].event = log[a][k].event)
            => log[a][j].event = log[a][i].event

\* The score calculateScore gives for the committed aggregates of a.
CommittedScore(a) ==
    LET rows == {r \in user_actions : r.address = a}
        first == FirstAction(rows)
    IN  calculateScore(ScoreInput(user_stats[a][1], ActiveDays(rows),
                                  IF first # Null THEN now - first[1] ELSE 0))

ScoreWrites(a) ==
    LET w == Entries(a, "scoreWrite") IN
    [i \in 1..Len(w) |-> << w[i].event, w[i].what[1].dna_score, w[i].what[1].tier >>]

UserUpdates(a) ==
    LET b == SelectSeq(log[a], IsUserUpdate) IN
    [i \in 1..Len(b) |-> << b[i].event, b[i].what.dnaScore, b[i].what.tier >>]

\* C2: no stale score survives: the persisted dna_score and tier of every
\* address are the ones computed from its persisted aggregates; and the
\* user_update messages for an address are broadcast in the order in which
\* their scores were written, each carrying the score written.
C2_NoStaleScore ==
    \A a \in Addrs :
        /\ user_stats[a] # Null =>
              /\ user_stats[a][1].dna_score = CommittedScore(a)
              /\ user_stats[a][1].tier = getTier(CommittedScore(a))
        /\ websocketServer => UserUpdates(a) = ScoreWrites(a)

\* Two calls for one address overlapped (the second wrote its stats before
\* the first had made its last broadcast), both committed, and the row shows
\* both swaps.
C2_Witness ==
    /\ websocketServer
    /\ ~C1_Serialized
    /\ \E e, f \in Events :
          /\ e # f /\ Started(e) /\ Started(f) /\ Address(e) = Address(f)
          /\ outcome[e] = "returned" /\ outcome[f] = "returned"
          /\ Len(ScoreWrites(Address(e))) = 2
          /\ Len(Entries(Address(e), "commit")) = 2
          /\ ScoreWrites(Address(e))[1][2] # ScoreWrites(Address(e))[2][2]

\* C3: broadcast isolation: in every call a send is attempted to every OPEN
\* connection and the message is delivered to all of them except the ones
\* whose send throws; the functions that return counts (broadcastToAll's
\* callers and broadcastLeaderboardUpdate of the FIXES file) return the
\* number delivered and the number that threw: {2, 1} for 3 open connections
\* one of which throws.
C3_Isolation ==
    Called =>
        /\ Range(lastCall.attempted) = lastCall.open
        /\ Range(lastCall.delivered) = lastCall.open \ broken
        /\ lastCall.ret # Undefined =>
              /\ lastCall.ret[1].sentCount = Cardinality(lastCall.open \ broken)
              /\ lastCall.ret[1].errorCount = Cardinality(lastCall.open \cap broken)
              /\ (Cardinality(lastCall.open) = 3
                    /\ Cardinality(lastCall.open \cap broken) = 1)
                 => lastCall.ret = << [sentCount |-> 2, errorCount |-> 1] >>

\* Three open connections, the first of them broken: the two after it got
\* the message and the call returned {2, 1}.
C3_Witness ==
    /\ Called
    /\ Cardinality(lastCall.open) = 3
    /\ ThrewIn(lastCall) = {lastCall.attempted[1]}
    /\ Len(lastCall.delivered) = 2
    /\ lastCall.ret = << [sentCount |-> 2, errorCount |-> 1] >>

\* C4: a failed send removes the connection from the live set: after a
\* broadcast in which the send to c threw, c is not in the live set.
C4_FailedSendPruned ==
    Called => \A c \in ThrewIn(lastCall) : c \notin LiveSet

\* C5: a connection that is not OPEN receives no send attempt and is removed
\* from the live set by the broadcast that meets it.
C5_NotOpenPruned ==
    Called => \A c \in lastCall.live :
                  readyState[c] # OPEN =>
                      /\ c \notin Range(lastCall.attempted)
                      /\ c \notin LiveSet

\* C6: every broadcast function returns {sent, failed}: the number of sends
\* that succeeded and the number that threw, one attempt per connection, and
\* the two add up to the number of connections that were open.
C6_ReturnsCounts ==
    Called =>
        /\ lastCall.ret # Undefined
        /\ lastCall.ret[1].sentCount = Len(lastCall.delivered)
        /\ lastCall.ret[1].errorCount = Cardinality(ThrewIn(lastCall))
        /\ Cardinality(Range(lastCall.attempted)) = Len(lastCall.attempted)
        /\ lastCall.ret[1].sentCount + lastCall.ret[1].errorCount
              = Cardinality(lastCall.open)

\* A persistence read or write of the call has failed.
PersistenceFailed(e) ==
    \/ outcome[e] = "threw"
    \/ \E i \in 1..Len(log[Address(e)]) :
          /\ log[Address(e)][i].event = e
          /\ log[Address(e)][i].kind = "rankQueryFailed"

\* C7: a persistence failure is a hard stop: an event one of whose
\* persistence reads or writes (the commit included) failed has no rank
\* detection step and no broadcast.
C7_HardStop ==
    \A e \in Events :
        (Started(e) /\ PersistenceFailed(e)) =>
            \A i \in 1..Len(log[Address(e)]) :
                log[Address(e)][i].event = e =>
                    log[Address(e)][i].kind \notin {"broadcast", "rankCheck"}

\* Entry i of the log of a is preceded by an entry of the same event of the
\* given kind.
Preceded(a, i, kind) ==
    \E j \in 1..(i - 1) :
        log[a][j].event = log[a][i].event /\ log[a][j].kind = kind

\* C8: the steps of an event come in the order merge, compute and persist,
\* rank detection, broadcast: the score write follows the stats write, and
\* rank detection and every broadcast follow the commit of the transaction
\* that wrote the score.
C8_StepOrder ==
    \A a \in Addrs : \A i \in 1..Len(log[a]) :
        /\ log[a][i].kind = "scoreWrite" => Preceded(a, i, "statsWrite")
        /\ log[a][i].kind \in {"rankCheck", "broadcast"} => Preceded(a, i, "commit")

\* C9: processSwap never throws to its caller.
C9_NeverThrows == \A e \in Events : outcome[e] # "threw"

\* The call waits for a row lock.
Blocked(f) ==
    \/ pc[f] = "insertUser" /\ UserRowBusy(f, Address(f))
    \/ pc[f] = "insertStats" /\ user_stats[Address(f)] = Null
                             /\ StatsRowBusy(f, Address(f))
    \/ pc[f] = "updateStats" /\ ~UpdateStatsReady(f)

\* C10: a failure of one user's update does not touch other users' updates:
\* the step in which a call fails changes no committed row, no other call's
\* transaction, position or result; a finished call holds no transaction;
\* and a call only ever waits for an unfinished call for the same address.
C10_FailureIsolation ==
    /\ [] (\A e \in Events :
              /\ pc[e] = "done" => tx[e] = NoTx
              /\ Blocked(e) => \E f \in Events \ {e} :
                                  Address(f) = Address(e) /\ tx[f].open)
    /\ [][\A e \in Events :
             (outcome[e] # "threw" /\ outcome'[e] = "threw") =>
                 /\ dvars' = dvars
                 /\ \A f \in Events \ {e} :
                       /\ tx'[f] = tx[f] /\ pc'[f] = pc[f]
                       /\ outcome'[f] = outcome[f] /\ local'[f] = local[f]]_vars

\* A call for one address threw inside its transaction while a call for the
\* other address was under way, and that one committed and broadcast.
C10_Witness ==
    \E e, f \in Events :
        /\ Started(e) /\ Started(f) /\ Address(e) # Address(f)
        /\ outcome[e] = "threw"
        /\ Len(log[Address(e)]) > 0
        /\ outcome[f] = "returned"
        /\ Len(Entries(Address(f), "commit")) = 1
        /\ websocketServer => Len(Entries(Address(f), "broadcast")) = 2

\* C11: every score write of an event is followed at once by the broadcast
\* of a user_update message {address, dnaScore, tier, timestamp} of that
\* event carrying the score and tier just written, whatever the rank check
\* finds afterwards (the indexer having its websocket server).
C11_UserUpdateSent ==
    \A a \in Addrs : \A i \in 1..Len(log[a]) :
        (websocketServer /\ log[a][i].kind = "scoreWrite") =>
            /\ i < Len(log[a])
            /\ log[a][i + 1].kind = "broadcast"
            /\ log[a][i + 1].event = log[a][i].event
            /\ log[a][i + 1].what =
                  [type |-> "user_update", address |-> a,
                   dnaScore |-> log[a][i].what[1].dna_score,
                   tier |-> log[a][i].what[1].tier,
                   timestamp |-> now]

\* An event changed the score of its user, the user_update went out with
\* the new score, and the rank check then found the rank unchanged.
C11_Witness ==
    \E a \in Addrs : \E i, j \in 1..Len(log[a]) :
        /\ i < j
        /\ IsUserUpdate(log[a][i])
        /\ user_stats[a] # Null
        /\ log[a][i].what.dnaScore # user_stats[a][1].dna_score
        /\ log[a][j].kind = "rankCheck" /\ log[a][j].event = log[a][i].event
        /\ log[a][j].what[1].oldRank = log[a][j].what[1].newRank

\* The message types that report a change of rank.
RankEventTypes == {"leaderboard_update", "ranking_changes", "new_leader"}

\* The event has broadcast a message of one of the given types.
HasBroadcast(a, e, types) ==
    \E k \in 1..Len(log[a]) :
        /\ log[a][k].kind = "broadcast" /\ log[a][k].event = e
        /\ log[a][k].what.type \in types

\* The rank checks of the log of a: the positions of its rankCheck entries.
RankChecks(a) == {i \in 1..Len(log[a]) : log[a][i].kind = "rankCheck"}

Finished(a, i) == outcome[log[a][i].event] = "returned"

\* C13: a score update that changes the rank of its user (the rank after it
\* differs from the rank before it, or the user had none before) has
\* broadcast, by the time the call returns, a rank-change message for the
\* user.
C13_RankChangeEmitted ==
    \A a \in Addrs : \A i \in RankChecks(a) :
        (websocketServer /\ Finished(a, i)
            /\ log[a][i].what[1].oldRank # log[a][i].what[1].newRank)
        => HasBroadcast(a, log[a][i].event,
                        {"leaderboard_update", "ranking_changes"})

\* The number of new_leader messages an event has broadcast.
NewLeaderCount(a, e) ==
    Cardinality({k \in 1..Len(log[a]) :
                    /\ log[a][k].kind = "broadcast" /\ log[a][k].event = e
                    /\ log[a][k].what.type = "new_leader"})

\* C14: a score update that moves its user to rank 1 from another rank or
\* from no rank has broadcast exactly one new_leader message by the time the
\* call returns; one that leaves its user at rank 1 has broadcast none.
C14_NewLeader ==
    \A a \in Addrs : \A i \in RankChecks(a) :
        (websocketServer /\ Finished(a, i)) =>
            /\ (log[a][i].what[1].newRank = Some(1)
                   /\ log[a][i].what[1].oldRank # Some(1))
               => NewLeaderCount(a, log[a][i].event) = 1
            /\ (log[a][i].what[1].newRank = Some(1)
                   /\ log[a][i].what[1].oldRank = Some(1))
               => NewLeaderCount(a, log[a][i].event) = 0

\* The N of "top N".
TopN == 100

\* The user was outside the top N (or unranked) before and is inside after.
EnteredTopN(observation) ==
    /\ observation.newRank # Null /\ observation.newRank[1] <= TopN
    /\ observation.oldRank = Null \/ observation.oldRank[1] > TopN

\* C15: a score update has broadcast the entered-top-N message (an
\* incremental leaderboard_update for its user) by the time the call
\* returns exactly when its user entered the top N.
C15_EnteredTopN ==
    \A a \in Addrs : \A i \in RankChecks(a) :
        (websocketServer /\ Finished(a, i)) =>
            (EnteredTopN(log[a][i].what[1])
                <=> HasBroadcast(a, log[a][i].event, {"leaderboard_update"}))

\* C16: the ranks the rank query yields are the ranks of all known users
\* ordered by score descending, address ascending: no address twice, and the
\* rank read for the user of the event is its rank in that order.
C16_RankPermutation ==
    \A a \in Addrs : \A i \in RankChecks(a) :
        /\ \A j, k \in 1..Len(log[a][i].what[1].rows) :
              j # k => log[a][i].what[1].rows[j] # log[a][i].what[1].rows[k]
        /\ log[a][i].what[1].currentRank = log[a][i].what[1].newRank

\* The entry of the message carries the five fields of the change it was
\* made from.
PassedThrough(entry, change) ==
    /\ entry.address = change.address
    /\ entry.oldRank = change.oldRank /\ entry.newRank = change.newRank
    /\ entry.dnaScore = change.dnaScore /\ entry.tier = change.tier

\* C17: the changes of a ranking_changes message are the changes handed to
\* broadcastRankingChanges, one entry per change in the same order with
\* address, oldRank, newRank, dnaScore and tier as given, and the rankChange
\* of every entry is its oldRank - newRank.
C17_RankChange ==
    (Called /\ lastCall.fn = "broadcastRankingChanges") =>
        /\ lastCall.message.type = "ranking_changes"
        /\ \E changes \in SampleChanges :
              /\ Len(lastCall.message.changes) = Len(changes)
              /\ \A i \in 1..Len(changes) :
                    PassedThrough(lastCall.message.changes[i], changes[i])
        /\ \A i \in 1..Len(lastCall.message.changes) :
              lastCall.message.changes[i].rankChange =
                  lastCall.message.changes[i].oldRank
                      - lastCall.message.changes[i].newRank

\* A ranking_changes message of two entries, the first moved up by one and
\* the second down by one, was delivered to a subscriber.
C17_Witness ==
    /\ Called /\ lastCall.fn = "broadcastRankingChanges"
    /\ Len(lastCall.delivered) > 0
    /\ Len(lastCall.message.changes) = 2
    /\ lastCall.message.changes[1].rankChange = 1
    /\ lastCall.message.changes[2].rankChange = -1

\* The type each broadcast function gives its message.
MessageType ==
    [broadcastLeaderboardUpdate |-> "leaderboard_update",
     broadcastRankingChanges |-> "ranking_changes",
     broadcastNewLeader |-> "new_leader",
     broadcastUserUpdate |-> "user_update",
     broadcastUserAction |-> "user_action"]

\* C18: the message of every broadcast function carries the type of that
\* function, whatever payload the caller hands in, and a timestamp; a
\* leaderboard_update carries updateType and data, a new_leader a leader
\* with address, ensName, dnaScore, tier, totalPositions, totalVolumeUsd.
C18_MessageShape ==
    Called =>
        /\ lastCall.message.type = MessageType[lastCall.fn]
        /\ "timestamp" \in DOMAIN lastCall.message
        /\ lastCall.fn = "broadcastLeaderboardUpdate" =>
              {"updateType", "data"} \subseteq DOMAIN lastCall.message
        /\ lastCall.fn = "broadcastNewLeader" =>
              DOMAIN lastCall.message.leader =
                  {"address", "ensName", "dnaScore", "tier", "totalPositions",
                   "totalVolumeUsd"}

\* C19: a subscriber gets a message only by a broadcast made while its
\* connection is open, and one message per broadcast: nothing is kept for a
\* connection that is not open or not there yet, and nothing broadcast
\* earlier is handed to a connection that comes later.
C19_NoReplay ==
    /\ [] (\A c \in Conns :
              c \notin LiveSet \cup Range(standby) => received[c] = 0)
    /\ [][\A c \in Conns :
             received'[c] # received[c] =>
                 \/ /\ received'[c] = received[c] + 1
                    /\ c \in LiveSet /\ readyState[c] = OPEN
                    /\ lastCall'.fn # "none"
                    /\ c \in Range(lastCall'.delivered)
                 \/ /\ received'[c] = 0
                    /\ readyState'[c] = CLOSED]_vars

\* Two broadcasts were made; a connection open for both has both messages,
\* a connection that came between them has the second only.
C19_Witness ==
    /\ Called
    /\ \E c, d \in Range(lastCall.delivered) :
          /\ d < c
          /\ received[d] = 2
          /\ received[c] = 1

\* The computations made for an address, in order.
Computations(a) ==
    LET c == Entries(a, "compute") IN [i \in 1..Len(c) |-> c[i].what[1]]

\* Two computations were given the same aggregates.
SameInput(x, y) ==
    /\ x.total_swaps = y.total_swaps
    /\ x.total_volume_usd = y.total_volume_usd
    /\ x.activeDays = y.activeDays
    /\ x.totalDays = y.totalDays

C21_TierOfScore ==
    \A a \in Addrs :
        /\ user_stats[a] # Null =>
              user_stats[a][1].tier = getTier(user_stats[a][1].dna_score)
        /\ \A i \in 1..Len(ScoreWrites(a)) :
              ScoreWrites(a)[i][3] = getTier(ScoreWrites(a)[i][2])

\* A new user was scored and the row committed with a tier that is not the
\* tier the row was inserted with.
C21_Witness ==
    /\ user_stats["0xb"] # Null
    /\ user_stats["0xb"][1].dna_score > 0
    /\ user_stats["0xb"][1].tier # NewStatsRow.tier
    /\ Len(Entries("0xb", "commit")) > 0

UserActions(a, e) ==
    {k \in 1..Len(log[a]) :
        /\ log[a][k].kind = "broadcast" /\ log[a][k].event = e
        /\ log[a][k].what.type = "user_action"}

\* C23: the writes of a processSwap call are all or nothing: a call that
\* threw has committed nothing and broadcast no user_action; a user_action
\* is broadcast only after the transaction of its call has committed, and
\* at most once per call.
C23_AllOrNothing ==
    \A e \in Events : Started(e) =>
        /\ outcome[e] = "threw" =>
              /\ UserActions(Address(e), e) = {}
              /\ \A k \in 1..Len(log[Address(e)]) :
                    log[Address(e)][k].event = e =>
                        log[Address(e)][k].kind # "commit"
        /\ \A k \in UserActions(Address(e), e) : Preceded(Address(e), k, "commit")
        /\ Cardinality(UserActions(Address(e), e)) <= 1

\* The script has exited with code 1 without having sent a statement to the
\* database.
AbortedBeforeMigration ==
    /\ migratePc = "exited"
    /\ exitCode = Some(1)
    /\ queries = << >>

\* A variable that is unset (or empty, which the script cannot tell apart).
Unset(name) == env[name] = Null \/ env[name] = Some("")

\* C24: once the configuration check of the migration script is done, the
\* script has aborted with exit code 1 before any statement of a migration
\* exactly when DATABASE_URL is unset and at least one of DB_HOST, DB_NAME
\* and DB_USER is unset; in every other environment the check has passed
\* and the script goes on to the migration.
C24_AbortsIffConfigMissing ==
    migratePc # "start" =>
        (AbortedBeforeMigration <=>
            (/\ Unset("DATABASE_URL")
             /\ (Unset("DB_HOST") \/ Unset("DB_NAME") \/ Unset("DB_USER"))))

\* The step in which the pool lookup of call e comes back with null.
NoPoolInfoStep(e) == pc[e] = "getPoolInfo" /\ pc'[e] = "done"

\* C25: when the pool info of the event's pool cannot be obtained,
\* processSwap returns normally and has had no effect: in that step no row
\* of users, user_stats, user_actions changes, no transaction is opened or
\* touched, no score is computed or written, no connection is sent anything;
\* the call has left no step in the history of its address and takes none
\* afterwards.
C25_NoPoolNoEffect ==
    [][\A e \in Events :
          /\ NoPoolInfoStep(e) =>
                /\ outcome'[e] = "returned"
                /\ users' = users /\ user_stats' = user_stats
                /\ user_actions' = user_actions /\ pools' = pools
                /\ tx' = tx /\ local' = local /\ amountUsd' = amountUsd
                /\ received' = received /\ lastCall' = lastCall
                /\ log' = log
                /\ \A i \in 1..Len(log[Address(e)]) :
                      log[Address(e)][i].event # e
          /\ pc[e] = "done" =>
                /\ pc'[e] = "done" /\ outcome'[e] = outcome[e]
                /\ \A a \in Addrs : \A i \in 1..Len(log'[a]) :
                      i > Len(log[a]) => log'[a][i].event # e]_vars

\* A call has come back from the pool lookup empty-handed while another
\* call is at work inside its transaction.
C25_Witness ==
    \E e, f \in Events :
        /\ pc[e] = "done" /\ outcome[e] = "returned" /\ logged[e] = "warn"
        /\ \A i \in 1..Len(log[Address(e)]) : log[Address(e)][i].event # e
        /\ tx[f].open

\* The user_stats row of a as committed, the column defaults when there is none.
CommittedRow(a) == IF user_stats[a] = Null THEN NewStatsRow ELSE user_stats[a][1]

\* The step in which the transaction of call e commits its writes.
CommitStep(e) == pc[e] = "commit" /\ pc'[e] = "afterCommit" /\ ~tx[e].aborted

\* What the swap of call e adds to total_volume_usd, by the prices the feed has.
VolumeAdded(e) ==
    IF feed[1] # Null THEN Abs(arg[e].amount0) * feed[1][1]
    ELSE IF feed[2] # Null THEN Abs(arg[e].amount1) * feed[2][1]
    ELSE 0

\* The transaction of call e has committed its writes.
HasCommitted(e) ==
    \E i \in 1..Len(log[Address(e)]) :
        log[Address(e)][i].event = e /\ log[Address(e)][i].kind = "commit"

\* C26: a swap whose tokens both have no price is still recorded, with a
\* null USD amount: the commit of its transaction raises total_swaps of the
\* user by exactly 1 and leaves total_volume_usd as it was, the score has
\* been recomputed and written in that transaction, the action row has a
\* null amount_usd and the user_action message carries amountUsd null.  With
\* a price, total_volume_usd rises by exactly the computed amount: the
\* amount of token0 at token0's price if the feed has it, else the amount
\* of token1 at token1's price; and the message carries that amount.
C26_NullPriceRecorded ==
    /\ [](\A e \in Events : Started(e) =>
             /\ \A i \in UserActions(Address(e), e) :
                   log[Address(e)][i].what.amountUsd =
                       (IF feed = << Null, Null >> THEN Null
                        ELSE Some(VolumeAdded(e)))
             /\ (HasCommitted(e) /\ pc[e] = "done" /\ websocketServer)
                   => UserActions(Address(e), e) # {})
    /\ [][\A e \in Events : CommitStep(e) =>
             LET a == Address(e) IN
             /\ user_stats'[a] # Null
             /\ user_stats'[a][1].total_swaps = CommittedRow(a).total_swaps + 1
             /\ user_stats'[a][1].total_volume_usd
                   = CommittedRow(a).total_volume_usd + VolumeAdded(e)
             /\ feed = << Null, Null >> =>
                   user_stats'[a][1].total_volume_usd = CommittedRow(a).total_volume_usd
             /\ \E r \in user_actions' \ user_actions :
                   /\ r.address = a /\ r.tx_hash = e
                   /\ r.amount_usd = (IF feed = << Null, Null >> THEN Null
                                      ELSE Some(VolumeAdded(e)))
             /\ \E i \in 1..Len(ScoreWrites(a)) :
                   /\ ScoreWrites(a)[i][1] = e
                   /\ user_stats'[a][1].dna_score = ScoreWrites(a)[i][2]]_vars

\* The feed has neither price, and a call has committed its swap and
\* broadcast the user_action message.
C26_Witness ==
    \E e \in Events :
        /\ Started(e)
        /\ feed = << Null, Null >>
        /\ HasCommitted(e)
        /\ UserActions(Address(e), e) # {}

\* Call e is inside its transaction, past the insert into user_stats and
\* not yet past the SELECT of updateDNAScore.
InsertedNotYetSelected(e) ==
    pc[e] \in {"insertAction", "updateStats", "activeDays", "firstAction",
               "selectStats"}

\* The step in which updateDNAScore finds no row and returns early.
NoStatsFoundStep(e) == pc[e] = "selectStats" /\ pc'[e] = "commit"

\* C30: when updateDNAScore is called from processSwap, the user_stats row
\* of the address exists in the transaction of the call: from the insert on
\* the transaction sees a row, so the SELECT of updateDNAScore finds one
\* and the early return on no stats is never taken.
C30_StatsRowExists ==
    /\ [](\A e \in Events : InsertedNotYetSelected(e) =>
             /\ tx[e].open
             /\ SelectUserStats(e) # Null)
    /\ [][\A e \in Events : ~NoStatsFoundStep(e)]_vars

\* A call for an address that had no user_stats row is about to run the
\* SELECT of updateDNAScore.
C30_Witness ==
    \E e \in Events :
        /\ pc[e] = "selectStats"
        /\ user_stats[Address(e)] = Null

\* The connections of the client set of the server the module refers to
\* that are OPEN.
OpenClients == {c \in LiveSet : readyState[c] = OPEN}

\* C27: a broadcast of the websocket module made while no server is
\* registered attempts no send and returns {sentCount: 0, errorCount: 0};
\* once a server is registered, a broadcast goes to the client set, as it is
\* at the call, of the server registered last: a send is attempted to every
\* OPEN member of that set and to no other connection, and no connection of
\* another server receives anything.
C27_RegisteredServer ==
    /\ []((Called /\ lastCall.impl = "ts") =>
             IF ~wssInstance
             THEN /\ lastCall.attempted = << >>
                  /\ lastCall.ret = << [sentCount |-> 0, errorCount |-> 0] >>
             ELSE /\ Range(lastCall.attempted) = OpenClients
                  /\ Range(lastCall.attempted) \cap Range(standby) = {})
    /\ [][(lastCall'.fn # "none" /\ lastCall'.impl = "ts") =>
             \A c \in Conns : received'[c] # received[c] =>
                 /\ wssInstance
                 /\ c \in OpenClients
                 /\ c \notin Range(standby)]_vars

\* A broadcast has been delivered to a client of the server registered
\* last while a client of the server registered before it is still open.
C27_Witness ==
    /\ Called /\ lastCall.impl = "ts"
    /\ wssInstance
    /\ lastCall.delivered # << >>
    /\ \E c \in Range(standby) : readyState[c] = OPEN

\* The positions in the history of the callbacks of a given kind.
Callbacks(kinds) == {i \in 1..Len(handled) : handled[i].callback \in kinds}

\* The positions of the messages that announce a change of the ranking.
RankingMessages ==
    {i \in Callbacks({"onMessage"}) :
        handled[i].type \in {Some("leaderboard_update"), Some("ranking_changes"),
                             Some("new_leader")}}

\* The last position of a non-empty set of positions.
Last(positions) == CHOOSE i \in positions : \A j \in positions : j <= i

\* C28: on the leaderboard page every message of type leaderboard_update,
\* ranking_changes or new_leader has caused exactly one refetch and set
\* lastUpdate to the time it came in, and no other message has caused a
\* refetch or touched lastUpdate: the number of refetches is the number of
\* such messages received and lastUpdate is the time of the last of them,
\* null if there was none; and wsConnected is true exactly when there was
\* a connection event and the last one was a connect.
C28_LiveUpdates ==
    /\ refetches = Cardinality(RankingMessages)
    /\ lastUpdate = (IF RankingMessages = {} THEN Null
                     ELSE Some(handled[Last(RankingMessages)].at))
    /\ wsConnected =
          (/\ Callbacks({"onConnect", "onDisconnect"}) # {}
           /\ handled[Last(Callbacks({"onConnect", "onDisconnect"}))].callback
                 = "onConnect")

\* The page is connected; after a ranking message, a later day has brought
\* a message of another type.
C28_Witness ==
    /\ RankingMessages # {}
    /\ \E i \in Callbacks({"onMessage"}) \ RankingMessages :
          /\ i > Last(RankingMessages)
          /\ handled[i].at > handled[Last(RankingMessages)].at
    /\ wsConnected

\* C29: the pagination of the leaderboard page: offset is never negative
\* and always a multiple of the limit in force, and the page shown is
\* offset / limit + 1; a step that changes metric, tier, timeframe or limit
\* leaves offset at 0; the previous-page step moves back by one limit and
\* never below 0, the next-page step forward by one limit.
C29_Pagination ==
    /\ [](/\ offset >= 0
          /\ offset % limit = 0
          /\ (currentPage - 1) * limit = offset)
    /\ [][/\ (metric' # metric \/ tierFilter' # tierFilter
               \/ timeframe' # timeframe \/ limit' # limit) => offset' = 0
          /\ offset' < offset => (offset' = 0 \/ offset' = offset - limit)
          /\ offset' > offset => offset' = offset + limit]_vars

\* The user is on the third page of 25 results, sorted and filtered other
\* than at first.
C29_Witness ==
    /\ limit = 25
    /\ offset = 50
    /\ currentPage = 3
    /\ metric # "dna_score"
    /\ tierFilter # Null

====
